---- MODULE Spec2Model ----
(***************************************************************************)
(* Dataset statistics engine of the ISD application                        *)
(* (src/isd/dataset/statistics.py) together with the callers and the       *)
(* persistence and storage layers it talks to.                             *)
(*                                                                         *)
(* Representation.  A cell of a table and every scalar of a statistics     *)
(* record is a record [k, n, d]: k = "num" is the rational n/d (d >= 1,    *)
(* lowest terms), "nan" a missing cell, "str" a text cell, "inf" the float *)
(* +inf, "none" Python's None.  A column name is the sequence of its       *)
(* characters, so that str.lower() and the substring test are computed.    *)
(***************************************************************************)
EXTENDS Integers, Sequences, FiniteSets, TLC

\* ------------------------------------------------------------------ bounds
MaxRows == 2
MaxCalls == 2
MaxSampleCount == 450

\* ------------------------------------------------------- program constants
DATASET_STATS_SCHEMA_VERSION == "v2"
LEGACY_SCHEMA_VERSION == "v1"
MIN_HISTOGRAM_BINS == 5
MAX_HISTOGRAM_BINS == 20

\* ------------------------------------------------------------------ values
None == [k |-> "none", n |-> 0, d |-> 1]
NaN == [k |-> "nan", n |-> 0, d |-> 1]
Inf == [k |-> "inf", n |-> 0, d |-> 1]
Str(i) == [k |-> "str", n |-> i, d |-> 1]
Num(x) == [k |-> "num", n |-> x, d |-> 1]

Abs(x) == IF x < 0 THEN -x ELSE x

RECURSIVE GCD(_, _)
GCD(a, b) == IF b = 0 THEN a ELSE GCD(b, a % b)

\* the rational a/b, b > 0, in lowest terms
Rat(a, b) ==
  LET g == GCD(Abs(a), b)
  IN  [k |-> "num", n |-> (IF a < 0 THEN -(Abs(a) \div g) ELSE a \div g), d |-> b \div g]

IsNone(v) == v.k = "none"

SetMin(S) == CHOOSE x \in S : \A y \in S : x <= y
SetMax(S) == CHOOSE x \in S : \A y \in S : y <= x

RECURSIVE SumSeq(_)
SumSeq(s) == IF s = <<>> THEN 0 ELSE Head(s) + SumSeq(Tail(s))

\* ------------------------------------------------------------ column names
UpperChars == <<"A","B","C","D","E","F","G","H","I","J","K","L","M",
                "N","O","P","Q","R","S","T","U","V","W","X","Y","Z">>
LowerChars == <<"a","b","c","d","e","f","g","h","i","j","k","l","m",
                "n","o","p","q","r","s","t","u","v","w","x","y","z">>

\* str.lower(), character by character
LowerChar(c) ==
  IF \E i \in DOMAIN UpperChars : UpperChars[i] = c
  THEN LowerChars[CHOOSE i \in DOMAIN UpperChars : UpperChars[i] = c]
  ELSE c
Lower(s) == [i \in 1..Len(s) |-> LowerChar(s[i])]

\* Python's `sub in s` for strings
Contains(s, sub) ==
  \E i \in 0..(Len(s) - Len(sub)) : SubSeq(s, i + 1, i + Len(sub)) = sub

N_time == <<"t","i","m","e">>
N_Time == <<"T","i","m","e">>
N_TIME == <<"T","I","M","E">>
N_duration == <<"d","u","r","a","t","i","o","n">>
N_survival_time == <<"s","u","r","v","i","v","a","l","_","t","i","m","e">>
N_censored == <<"c","e","n","s","o","r","e","d">>
N_Censored == <<"C","e","n","s","o","r","e","d">>
N_event == <<"e","v","e","n","t">>
N_Event == <<"E","v","e","n","t">>
N_status == <<"s","t","a","t","u","s">>
N_Status == <<"S","t","a","t","u","s">>
N_failure == <<"f","a","i","l","u","r","e">>
N_censor == <<"c","e","n","s","o","r">>
\* names outside the candidate lists
N_IS_CENSOR == <<"I","S","_","C","E","N","S","O","R">>
N_t == <<"t">>
N_flag == <<"f","l","a","g">>
N_feature_a == <<"f","e","a","t","u","r","e","_","a">>
N_feature_b == <<"f","e","a","t","u","r","e","_","b">>

\* Python's None where a column name is expected (no column has an empty name)
NoName == <<>>

TIME_CANDIDATES == <<N_time, N_Time, N_TIME, N_duration, N_survival_time>>
CENSOR_CANDIDATES ==
  <<N_censored, N_Censored, N_event, N_Event, N_status, N_Status, N_failure>>

\* -------------------------------------------------------------- dataframes
\* Optional[pd.DataFrame]: None, or the ordered columns [name, vals] of a
\* table of nrows rows
NoneDF == [isNone |-> TRUE, cols |-> <<>>, nrows |-> 0]
DF(cols, nrows) == [isNone |-> FALSE, cols |-> cols, nrows |-> nrows]

Columns(df) == [i \in 1..Len(df.cols) |-> df.cols[i].name]
ColumnSet(df) == {df.cols[i].name : i \in 1..Len(df.cols)}
Series(df, name) ==
  df.cols[CHOOSE i \in 1..Len(df.cols) : df.cols[i].name = name].vals
\* df.empty: no column or no row
Empty(df) == Len(df.cols) = 0 \/ df.nrows = 0

\* pd.to_numeric(series, errors="coerce"): text becomes NaN
ToNumeric(vals) ==
  [i \in 1..Len(vals) |-> IF vals[i].k = "str" THEN NaN ELSE vals[i]]
\* series.notna()
NotNa(c) == c.k # "nan"
\* pd.api.types.is_numeric_dtype(series): read_csv types a column as numeric
\* unless it holds text
IsNumericDtype(vals) == \A i \in 1..Len(vals) : vals[i].k # "str"

\* --------------------------------------------------- arithmetic on values
RLess(a, b) == a.n * b.d < b.n * a.d
RAdd(a, b) == Rat(a.n * b.d + b.n * a.d, a.d * b.d)
RSub(a, b) == Rat(a.n * b.d - b.n * a.d, a.d * b.d)
RMul(a, b) == Rat(a.n * b.n, a.d * b.d)
RDivInt(a, m) == Rat(a.n, a.d * m)
\* a / b for b > 0
RDiv(a, b) == Rat(a.n * b.d, a.d * b.n)
\* floor of a rational (\div rounds toward minus infinity)
RFloor(a) == a.n \div a.d
\* the order of floats, +inf the largest
VLess(a, b) ==
  IF a.k = "inf" THEN FALSE ELSE IF b.k = "inf" THEN TRUE ELSE RLess(a, b)

RECURSIVE RSum(_)
RSum(s) == IF s = <<>> THEN Num(0) ELSE RAdd(Head(s), RSum(Tail(s)))

Remove(s, i) == SubSeq(s, 1, i - 1) \o SubSeq(s, i + 1, Len(s))
\* series[rows]: the entries of the rows, in the order of rows
At(vals, rows) == [j \in DOMAIN rows |-> vals[rows[j]]]

RECURSIVE SortVals(_)
SortVals(s) ==
  IF s = <<>> THEN <<>>
  ELSE LET i == CHOOSE i \in DOMAIN s : \A j \in DOMAIN s : ~VLess(s[j], s[i])
       IN  <<s[i]>> \o SortVals(Remove(s, i))

\* series.dropna()
DropNa(vals) == SelectSeq(vals, NotNa)
HasInf(vals) == \E i \in DOMAIN vals : vals[i].k = "inf"
\* Series.min/max/mean/median of a non-empty series without NaN
SeriesMin(vals) == SortVals(vals)[1]
SeriesMax(vals) == SortVals(vals)[Len(vals)]
SeriesMean(vals) == IF HasInf(vals) THEN Inf ELSE RDivInt(RSum(vals), Len(vals))
SeriesMedian(vals) ==
  LET s == SortVals(vals)
      m == Len(s)
  IN  IF m % 2 = 1 THEN s[(m + 1) \div 2]
      ELSE IF s[m \div 2 + 1].k = "inf" THEN Inf
      ELSE RDivInt(RAdd(s[m \div 2], s[m \div 2 + 1]), 2)
\* Series.nunique(): distinct non-null values
NUnique(vals) == Cardinality({vals[i] : i \in {j \in DOMAIN vals : NotNa(vals[j])}})

\* ------------------------------------------------ column role resolution
\* _find_column: the first CANDIDATE (in candidate order) that is a column
\* and is not excluded
FindColumn(df, candidates, exclude) ==
  LET hits == {i \in DOMAIN candidates :
                 candidates[i] \notin exclude /\ candidates[i] \in ColumnSet(df)}
  IN  IF hits = {} THEN NoName ELSE candidates[SetMin(hits)]

\* lines 179-187: the time column
TimeCol(df) ==
  LET found == FindColumn(df, TIME_CANDIDATES, {})
  IN  IF found = NoName /\ ~Empty(df) THEN Columns(df)[1] ELSE found

\* lines 180-193: the censor/event column; the exclusion uses the time column
\* found by name only (before the positional fallback of the time column)
CensorCol(df) ==
  LET named == FindColumn(df, TIME_CANDIDATES, {})
      found == FindColumn(df, CENSOR_CANDIDATES,
                          IF named # NoName THEN {named} ELSE {})
      fallback_candidates ==
        SelectSeq(Tail(Columns(df)), LAMBDA col : col # TimeCol(df))
  IN  IF found = NoName /\ Len(df.cols) > 1 /\ fallback_candidates # <<>>
      THEN fallback_candidates[1]
      ELSE found

\* the columns that have no role, wherever they are
FeatureColumns_WithoutRoles(df) ==
  SelectSeq(Columns(df), LAMBDA col : col \notin {TimeCol(df), CensorCol(df)})

\* line 197
FeatureColumns(df) ==
  IF Len(df.cols) >= 2 THEN SubSeq(Columns(df), 3, Len(df.cols)) ELSE <<>>

\* ------------------------------------------------------ event indicator
NoSeries == [isNone |-> TRUE, vals |-> <<>>]
SomeSeries(vals) == [isNone |-> FALSE, vals |-> vals]

IsZeroOrOne(c) == c.k = "num" /\ c.d = 1 /\ c.n \in {0, 1}

\* `"censor" in column_name`: the name not lowered
InvertsName_CaseSensitive(column_name) == Contains(column_name, N_censor)

\* `"censor" in column_name.lower()`
InvertsName(column_name) == Contains(Lower(column_name), N_censor)

\* the values not checked against {0, 1}
DeriveEventIndicator_AnyValue(series, column_name) ==
  IF DropNa(ToNumeric(series)) = <<>> THEN NoSeries
  ELSE IF InvertsName(column_name)
  THEN SomeSeries([i \in DOMAIN series |->
                     IF ToNumeric(series)[i].k = "nan" THEN NaN
                     ELSE Num(1 - ToNumeric(series)[i].n)])
  ELSE SomeSeries(ToNumeric(series))

\* _derive_event_indicator: None, or the float series 1 = event observed,
\* 0 = censored, NaN where the entry was missing or not numeric
DeriveEventIndicator(series, column_name) ==
  LET numeric == ToNumeric(series)
      valid == DropNa(numeric)
  IN  IF valid = <<>> THEN NoSeries
      ELSE IF \E i \in DOMAIN valid : ~IsZeroOrOne(valid[i]) THEN NoSeries
      ELSE IF InvertsName(column_name)
      THEN SomeSeries([i \in DOMAIN numeric |->
                         IF numeric[i].k = "nan" THEN NaN ELSE Num(1 - numeric[i].n)])
      ELSE SomeSeries(numeric)

\* .fillna(1).astype(int): a missing entry counts as an event
FillNaInt_One(vals) ==
  [i \in DOMAIN vals |-> IF vals[i].k = "nan" THEN 1 ELSE vals[i].n]

\* .fillna(0).astype(int), as a sequence of integers
FillNaInt(vals) ==
  [i \in DOMAIN vals |-> IF vals[i].k = "nan" THEN 0 ELSE vals[i].n]

\* every row censored when no indicator was derived
FilledIndicator_AllCensored(df, derived) ==
  IF ~derived.isNone
  THEN [derived |-> TRUE, ind |-> FillNaInt(derived.vals)]
  ELSE [derived |-> FALSE, ind |-> [i \in 1..df.nrows |-> 0]]

\* lines 236-245: [derived, ind]: whether an indicator was derived, and the
\* integer indicator the rest of the computation uses (all 1 when none was)
FilledIndicator(df, derived) ==
  IF ~derived.isNone
  THEN [derived |-> TRUE, ind |-> FillNaInt(derived.vals)]
  ELSE [derived |-> FALSE, ind |-> [i \in 1..df.nrows |-> 1]]

\* lines 232-234
DerivedIndicator(df, censor_col) ==
  IF censor_col # NoName /\ censor_col \in ColumnSet(df)
  THEN DeriveEventIndicator(Series(df, censor_col), censor_col)
  ELSE NoSeries

\* lines 232-245
EventIndicator(df) == FilledIndicator(df, DerivedIndicator(df, CensorCol(df)))
CountEq(ind, x) == Cardinality({i \in DOMAIN ind : ind[i] = x})

\* ----------------------------------------------------------- histogram
\* round(np.sqrt(n)): the nearest integer (the root of an integer is never
\* half way between two)
ISqrt_Rounds(n) ==
  CHOOSE r \in 0..n : (2 * r - 1) * (2 * r - 1) <= 4 * n /\ 4 * n < (2 * r + 1) * (2 * r + 1)

\* int(np.sqrt(n))
ISqrt(n) == CHOOSE r \in 0..n : r * r <= n /\ n < (r + 1) * (r + 1)

\* _determine_histogram_bin_count
DetermineHistogramBinCount(sample_count) ==
  IF sample_count <= 0 THEN MIN_HISTOGRAM_BINS
  ELSE LET heuristic == ISqrt(sample_count)
           raised == IF MIN_HISTOGRAM_BINS > heuristic THEN MIN_HISTOGRAM_BINS ELSE heuristic
       IN  IF MAX_HISTOGRAM_BINS < raised THEN MAX_HISTOGRAM_BINS ELSE raised

\* every bin half-open: the largest value falls out of the last bin
UniformBinIndex_HalfOpen(x, first, last, bins) ==
  RFloor(RDiv(RMul(RSub(x, first), Num(bins)), RSub(last, first)))

\* 0-based bin of x among `bins` equal bins over [first, last]; the last bin
\* is closed on the right
UniformBinIndex(x, first, last, bins) ==
  LET f == RFloor(RDiv(RMul(RSub(x, first), Num(bins)), RSub(last, first)))
  IN  IF f = bins THEN bins - 1 ELSE f

\* np.histogram over the range [first, last]: the counts and the bins + 1 edges
UniformHistogram(a, bins, first, last) ==
  [raised |-> FALSE,
   counts |-> [b \in 1..bins |->
                 Cardinality({i \in DOMAIN a :
                    UniformBinIndex(a[i], first, last, bins) = b - 1})],
   edges |-> [e \in 1..(bins + 1) |->
                RAdd(first, RDivInt(RMul(RSub(last, first), Num(e - 1)), bins))]]

\* np.histogram(a, bins=<int>) for a non-empty a: ValueError when the range
\* is not finite; a zero-width range is widened by 0.5 on each side
NpHistogram(a, bins) ==
  IF HasInf(a) THEN [raised |-> TRUE, counts |-> <<>>, edges |-> <<>>]
  ELSE IF SeriesMin(a) = SeriesMax(a)
  THEN UniformHistogram(a, bins, RSub(SeriesMin(a), Rat(1, 2)),
                        RAdd(SeriesMax(a), Rat(1, 2)))
  ELSE UniformHistogram(a, bins, SeriesMin(a), SeriesMax(a))
\* every bin half-open: a value on the last edge is dropped
NpHistogramEdges_HalfOpen(a, edges) ==
  [b \in 1..(Len(edges) - 1) |->
     Cardinality({i \in DOMAIN a :
        ~RLess(a[i], edges[b]) /\ RLess(a[i], edges[b + 1])})]

\* np.histogram(a, bins=<edges>): a value counts in the bin whose edges
\* enclose it (left-closed, the last bin closed on both sides); values
\* outside the edges are dropped
NpHistogramEdges(a, edges) ==
  LET nb == Len(edges) - 1
  IN  [b \in 1..nb |->
         Cardinality({i \in DOMAIN a :
            /\ ~RLess(a[i], edges[b])
            /\ \/ RLess(a[i], edges[b + 1])
               \/ (b = nb /\ a[i] = edges[b + 1])})]

\* only the bins that hold a value get a record
HistogramRecords_SkipsEmptyBins(total, event_times) ==
  IF total.raised THEN <<>>
  ELSE SelectSeq(
         [idx \in 1..Len(total.counts) |->
            [bin_start |-> total.edges[idx],
             bin_end |-> total.edges[idx + 1],
             count |-> total.counts[idx],
             events |-> NpHistogramEdges(event_times, total.edges)[idx],
             censored |-> total.counts[idx]
                            - NpHistogramEdges(event_times, total.edges)[idx]]],
         LAMBDA rec : rec.count > 0)

\* lines 334-347: one record per bin; censored = total - events
HistogramRecords(total, event_times) ==
  IF total.raised THEN <<>>
  ELSE [idx \in 1..Len(total.counts) |->
          [bin_start |-> total.edges[idx],
           bin_end |-> total.edges[idx + 1],
           count |-> total.counts[idx],
           events |-> NpHistogramEdges(event_times, total.edges)[idx],
           censored |-> total.counts[idx]
                          - NpHistogramEdges(event_times, total.edges)[idx]]]

\* lines 325-332: the histogram of the valid times, and of those of them
\* whose row is an event over the same edges
HistogramOfValid(valid_times, events_mask) ==
  IF valid_times = <<>> THEN <<>>
  ELSE HistogramRecords(
         NpHistogram(valid_times, DetermineHistogramBinCount(Len(valid_times))),
         At(valid_times,
            SelectSeq([j \in DOMAIN valid_times |-> j], LAMBDA j : events_mask[j] = 1)))

\* lines 321-325: the rows whose time is not NaN
ValidRows(tn) == SelectSeq([i \in DOMAIN tn |-> i], LAMBDA i : NotNa(tn[i]))

\* _build_event_time_histogram(time_numeric, event_indicator)
BuildEventTimeHistogram(time_numeric, event_indicator) ==
  IF time_numeric.isNone THEN <<>>
  ELSE HistogramOfValid(At(time_numeric.vals, ValidRows(time_numeric.vals)),
                        At(event_indicator, ValidRows(time_numeric.vals)))
\* ------------------------------------------------------ feature statistics
\* the square root of the rational q, kept symbolic; negated when neg
Sqrt(q, neg) == [k |-> IF neg THEN "negsqrt" ELSE "sqrt", n |-> q.n, d |-> q.d]

RECURSIVE SumProdDev(_, _, _, _)
\* sum over i of (xs[i] - mx) * (ys[i] - my)
SumProdDev(xs, ys, mx, my) ==
  IF xs = <<>> THEN Num(0)
  ELSE RAdd(RMul(RSub(Head(xs), mx), RSub(Head(ys), my)),
            SumProdDev(Tail(xs), Tail(ys), mx, my))

\* Series.std(): the sample (n - 1) standard deviation, len >= 2
SeriesStd(vals) ==
  IF HasInf(vals) THEN NaN
  ELSE LET m == SeriesMean(vals)
       IN  Sqrt(RDivInt(SumProdDev(vals, vals, m, m), Len(vals) - 1), FALSE)

\* time_numeric * event_indicator: inf * 0 is NaN
WeightedTime(time_numeric, event_indicator) ==
  [i \in DOMAIN time_numeric |->
     IF time_numeric[i].k = "nan" THEN NaN
     ELSE IF time_numeric[i].k = "inf"
          THEN (IF event_indicator[i] = 0 THEN NaN ELSE Inf)
     ELSE RMul(time_numeric[i], Num(event_indicator[i]))]

\* Series.corr(method="pearson") from the sums of products of deviations,
\* as the signed square root of sxy^2 / (sxx * syy)
PearsonOf(sxy, sxx, syy) ==
  [corr |-> Sqrt(RDiv(RMul(sxy, sxy), RMul(sxx, syy)), sxy.n < 0),
   abs |-> Sqrt(RDiv(RMul(sxy, sxy), RMul(sxx, syy)), FALSE)]

Pearson(ts, fs, mt, mf) ==
  PearsonOf(SumProdDev(ts, fs, mt, mf), SumProdDev(ts, ts, mt, mt),
            SumProdDev(fs, fs, mf, mf))

\* lines 399-407: the correlation of the rows of corr_df, when there are
\* two rows at least and neither column is constant; NaN (an infinite
\* value) is dropped by pd.notna
CorrelationOf(ts, fs) ==
  IF Len(ts) >= 2 /\ NUnique(fs) > 1 /\ NUnique(ts) > 1 /\ ~HasInf(ts) /\ ~HasInf(fs)
  THEN Pearson(ts, fs, SeriesMean(ts), SeriesMean(fs))
  ELSE [corr |-> None, abs |-> None]

\* lines 392-398: corr_df, the rows where weighted time and feature are present
CorrRows(wt, series) ==
  SelectSeq([i \in DOMAIN series |-> i], LAMBDA i : NotNa(wt[i]) /\ NotNa(series[i]))

\* lines 391-407: [correlation_with_time, abs_correlation]
Correlation(series, is_numeric, time_numeric, event_indicator) ==
  IF ~is_numeric \/ time_numeric.isNone
  THEN [corr |-> None, abs |-> None]
  ELSE CorrelationOf(
         At(WeightedTime(time_numeric.vals, event_indicator),
            CorrRows(WeightedTime(time_numeric.vals, event_indicator), series)),
         At(series,
            CorrRows(WeightedTime(time_numeric.vals, event_indicator), series)))
\* the p-value of the fitted single-covariate Cox model and its logarithm,
\* left uninterpreted
CoxP == [k |-> "cox_p", n |-> 0, d |-> 1]
CoxLogP == [k |-> "cox_log_p", n |-> 0, d |-> 1]

\* rows of cox_df after dropna(): time and feature both present
CoxRows(df, time_col, feature) ==
  {i \in 1..df.nrows : NotNa(Series(df, time_col)[i]) /\ NotNa(Series(df, feature)[i])}

\* lines 412-420, outside the try: cox_df.join(event) raises when a column of
\* cox_df is already named "event"; with the time column itself as the
\* feature cox_df[feature] is a frame and the `nunique() > 1` test raises
CoxPrepareRaises(df, time_col, feature, event_indicator, lifelines) ==
  /\ lifelines
  /\ IsNumericDtype(Series(df, feature))
  /\ \/ N_event \in {time_col, feature}
     \/ /\ feature = time_col
        /\ \E i \in CoxRows(df, time_col, feature) : event_indicator[i] = 1

\* lines 409-436: [cox_score, cox_score_log]
CoxScore(df, time_col, feature, event_indicator, lifelines) ==
  LET rows == CoxRows(df, time_col, feature)
      fvals == Series(df, feature)
  IN  IF /\ lifelines
         /\ IsNumericDtype(fvals)
         /\ \E i \in rows : event_indicator[i] = 1
         /\ Cardinality({fvals[i] : i \in rows}) > 1
         /\ IsNumericDtype(Series(df, time_col))
         /\ \A i \in rows : Series(df, time_col)[i].k # "inf" /\ fvals[i].k # "inf"
      THEN [p |-> CoxP, log |-> CoxLogP]
      ELSE [p |-> None, log |-> None]

\* the record of one feature, lines 438-450
FeatureRecordOf(feature, series, total_rows, corr, cox) ==
  [feature |-> feature,
   feature_type |-> IF IsNumericDtype(series) THEN "numeric" ELSE "categorical",
   non_null_percent |->
     IF total_rows # 0 THEN Rat(Len(DropNa(series)) * 100, total_rows) ELSE None,
   correlation_with_time |-> corr.corr,
   abs_correlation |-> corr.abs,
   mean |-> IF IsNumericDtype(series) /\ Len(DropNa(series)) # 0
            THEN SeriesMean(DropNa(series)) ELSE None,
   std_dev |-> IF IsNumericDtype(series) /\ Len(DropNa(series)) > 1
               THEN SeriesStd(DropNa(series)) ELSE None,
   cox_score |-> cox.p,
   cox_score_log |-> cox.log]

\* one pass of the loop of lines 376-450
FeatureRecord(df, feature, time_col, event_indicator, time_numeric, lifelines) ==
  FeatureRecordOf(feature, Series(df, feature), df.nrows,
                  Correlation(Series(df, feature), IsNumericDtype(Series(df, feature)),
                              time_numeric, event_indicator),
                  CoxScore(df, time_col, feature, event_indicator, lifelines))
\* the minus sign of the key left out: the weakest correlation first
KeyLess_Ascending(a, b) ==
  IF IsNone(a.abs_correlation) THEN FALSE
  ELSE IF IsNone(b.abs_correlation) THEN TRUE
  ELSE RLess(a.abs_correlation, b.abs_correlation)

\* the sort key (abs_correlation is None, -(abs_correlation or 0.0)), compared
KeyLess(a, b) ==
  IF IsNone(a.abs_correlation) THEN FALSE
  ELSE IF IsNone(b.abs_correlation) THEN TRUE
  ELSE RLess(b.abs_correlation, a.abs_correlation)

\* list.sort(key=...): stable
RECURSIVE SortResults(_)
SortResults(s) ==
  IF s = <<>> THEN <<>>
  ELSE LET i == SetMin({i \in DOMAIN s : \A j \in DOMAIN s : ~KeyLess(s[j], s[i])})
       IN  <<s[i]>> \o SortResults(Remove(s, i))

\* _compute_feature_statistics: [raised, results]
ComputeFeatureStatistics(df, feature_columns, time_col, event_indicator, time_numeric, lifelines) ==
  IF feature_columns = <<>> \/ time_col = NoName \/ time_col \notin ColumnSet(df)
  THEN [raised |-> FALSE, results |-> <<>>]
  ELSE IF \E i \in DOMAIN feature_columns :
            CoxPrepareRaises(df, time_col, feature_columns[i], event_indicator, lifelines)
  THEN [raised |-> TRUE, results |-> <<>>]
  ELSE [raised |-> FALSE,
        results |-> SortResults(
          [i \in DOMAIN feature_columns |->
             FeatureRecord(df, feature_columns[i], time_col, event_indicator,
                           time_numeric, lifelines)])]

\* ------------------------------------------- statistics of one dataframe
\* the time statistics filled with zero instead of null
EmptyStatistics_ZeroTimes(time_unit) ==
  [raised |-> FALSE,
   general_stats |->
     [num_samples |-> 0, num_features |-> 0, num_numeric_features |-> 0,
      num_censored |-> None, num_events |-> None,
      time_min |-> Num(0), time_max |-> Num(0),
      time_mean |-> Num(0), time_median |-> Num(0),
      time_unit |-> time_unit, total_columns |-> 0],
   feature_correlations |-> <<>>,
   event_time_histogram |-> <<>>]

\* lines 94-108: the record stored when there is no data
EmptyStatistics(time_unit) ==
  [raised |-> FALSE,
   general_stats |->
     [num_samples |-> 0, num_features |-> 0, num_numeric_features |-> 0,
      num_censored |-> None, num_events |-> None,
      time_min |-> None, time_max |-> None,
      time_mean |-> None, time_median |-> None,
      time_unit |-> time_unit, total_columns |-> 0],
   feature_correlations |-> <<>>,
   event_time_histogram |-> <<>>]

\* what an exception out of the computation leaves: nothing to store
RaisedStatistics(time_unit) ==
  [EmptyStatistics(time_unit) EXCEPT !.raised = TRUE]

\* lines 200-245: general_stats
GeneralStats(df, time_unit, feature_columns, time_series, ev) ==
  [num_samples |-> df.nrows,
   num_features |-> Len(feature_columns),
   num_numeric_features |->
     Cardinality({i \in DOMAIN feature_columns :
                    IsNumericDtype(Series(df, feature_columns[i]))}),
   num_censored |-> IF ev.derived THEN Num(CountEq(ev.ind, 0)) ELSE None,
   num_events |-> IF ev.derived THEN Num(CountEq(ev.ind, 1)) ELSE None,
   time_min |-> IF time_series # <<>> THEN SeriesMin(time_series) ELSE None,
   time_max |-> IF time_series # <<>> THEN SeriesMax(time_series) ELSE None,
   time_mean |-> IF time_series # <<>> THEN SeriesMean(time_series) ELSE None,
   time_median |-> IF time_series # <<>> THEN SeriesMedian(time_series) ELSE None,
   time_unit |-> time_unit,
   total_columns |-> Len(df.cols)]

\* lines 216-219: time_numeric, None without a time column
TimeNumeric(df, time_col) ==
  IF time_col # NoName /\ time_col \in ColumnSet(df)
  THEN SomeSeries(ToNumeric(Series(df, time_col)))
  ELSE NoSeries

\* lines 247-263: the feature statistics, then the histogram; an exception out
\* of the feature statistics ends the computation
StatisticsOf(df, time_unit, time_numeric, ev, features) ==
  IF features.raised THEN RaisedStatistics(time_unit)
  ELSE [raised |-> FALSE,
        general_stats |->
          GeneralStats(df, time_unit, FeatureColumns(df), DropNa(time_numeric.vals), ev),
        feature_correlations |-> features.results,
        event_time_histogram |-> BuildEventTimeHistogram(time_numeric, ev.ind)]

\* lines 216-257, with the roles resolved
StatisticsWith(df, time_unit, lifelines, time_col, ev) ==
  StatisticsOf(df, time_unit, TimeNumeric(df, time_col), ev,
               ComputeFeatureStatistics(df, FeatureColumns(df), time_col, ev.ind,
                                        TimeNumeric(df, time_col), lifelines))

\* _compute_statistics_from_dataframe(df, time_unit) for a non-empty df
ComputeStatisticsFromDataframe(df, time_unit, lifelines) ==
  StatisticsWith(df, time_unit, lifelines, TimeCol(df), EventIndicator(df))
\* lines 90-113 of calculate_and_store_dataset_statistics: the three fields
\* to persist for the dataframe at hand
Analyse(df, time_unit, lifelines) ==
  IF df.isNone \/ Empty(df) THEN EmptyStatistics(time_unit)
  ELSE ComputeStatisticsFromDataframe(df, time_unit, lifelines)

\* ------------------------------------------------------ imputation on upload
\* tasks.py lines 64-80: numeric feature columns get their mean for NaN (the
\* mean of an all-NaN column is NaN: nothing changes), text feature columns
\* get "unknown"
ImputeColumn(col) ==
  LET present == DropNa(col.vals)
      fill == IF ~IsNumericDtype(col.vals) THEN Str(1)
              ELSE IF present = <<>> THEN NaN
              ELSE SeriesMean(present)
  IN  [col EXCEPT !.vals = [i \in DOMAIN col.vals |->
                              IF col.vals[i].k = "nan" THEN fill ELSE col.vals[i]]]

Impute(df) ==
  DF([i \in DOMAIN df.cols |-> IF i <= 2 THEN df.cols[i] ELSE ImputeColumn(df.cols[i])],
     df.nrows)

\* ------------------------------------------------------------------ tables
Col(name, vals) == [name |-> name, vals |-> vals]

\* Scenario A of the tests: time,censored,feature_a / 10,1,0.5 / 15,0,1.5 / 20,1,3.0
TableA ==
  DF(<<Col(N_time, <<Num(10), Num(15), Num(20)>>),
       Col(N_censored, <<Num(1), Num(0), Num(1)>>),
       Col(N_feature_a, <<Rat(1, 2), Rat(3, 2), Num(3)>>)>>, 3)
\* two columns only
TableTwo ==
  DF(<<Col(N_t, <<Num(1), Num(2)>>), Col(N_flag, <<Num(0), Num(2)>>)>>, 2)
\* a header and no row
TableHeader ==
  DF(<<Col(N_time, <<>>), Col(N_censored, <<>>), Col(N_feature_a, <<>>)>>, 0)
\* a numeric feature named "event" with a missing value, and a text feature
TableEventFeature ==
  DF(<<Col(N_time, <<Num(1), Num(2), Num(4)>>),
       Col(N_censored, <<Num(0), Num(1), Num(1)>>),
       Col(N_event, <<Num(1), NaN, Num(4)>>),
       Col(N_feature_b, <<Str(0), NaN, Str(0)>>)>>, 3)

\* what a stored file holds: a table, or bytes read_csv cannot parse
FileOf(df) == [kind |-> "table", df |-> df]
Garbage == [kind |-> "garbage", df |-> NoneDF]
UploadContents ==
  {FileOf(TableA), FileOf(TableTwo), FileOf(TableHeader), FileOf(TableEventFeature),
   Garbage}

TimeUnits == {"day"}

\* =================================================================== state
VARIABLES
  datasets,     \* dataset_id -> the Dataset row [dataset_id, file_path, time_unit]
  nextDataset,  \* the next value of the AutoField dataset_id
  storage,      \* path -> content of the stored file
  statsTable,   \* the DatasetStatistics table: a sequence of rows
  clock,        \* the time, for computed_at
  lifelines,    \* whether `from lifelines import CoxPHFitter` succeeds
  calls,        \* requests and library calls begun so far
  proc,         \* each request's locals and position
  in_df,        \* SpecStats: the dataframe handed to the computation
  in_unit,      \* SpecStats: the dataset's time_unit
  out,          \* SpecStats: what the computation produced
  sample_count, \* SpecBins: the argument of _determine_histogram_bin_count
  bin_count     \* SpecBins: what it returned, 0 before the call

vars == <<datasets, nextDataset, storage, statsTable, clock, lifelines, calls,
          proc, in_df, in_unit, out, sample_count, bin_count>>

\* two concurrent requests; the model follows one dataset at a time (calls
\* on different datasets share nothing but the table)
Procs == {"r1", "r2"}
DatasetIds == {1}

\* the requests are interchangeable: r2 is the one that begins second
MayBegin(p) ==
  /\ proc[p].pc \in {"idle", "done"}
  /\ p = "r2" => proc["r1"].pc # "idle"

\* file_path: <<>> is None, <<i>> the path the upload of dataset i was saved at
NoPath == <<>>
NoDataset == [dataset_id |-> 0, file_path |-> NoPath, time_unit |-> "month"]

\* a file_path that leaves the storage root ("../x.csv")
OutsidePath == <<0>>

\* ------------------------------------------------------------ tabular loader
\* line 140, before the try: storage.get_full_path is default_storage.path,
\* which raises SuspiciousFileOperation for a path outside the storage root
GetFullPathRaises(dataset) == dataset.file_path = OutsidePath

\* _read_dataset_into_dataframe: None when there is no file path, when the
\* file is missing, and when read_csv raises
ReadDatasetIntoDataframe(dataset, store) ==
  IF dataset.file_path = NoPath THEN NoneDF
  ELSE IF dataset.file_path[1] \notin DOMAIN store THEN NoneDF
  ELSE IF store[dataset.file_path[1]].kind # "table" THEN NoneDF
  ELSE store[dataset.file_path[1]].df

\* --------------------------------------------------------- persistence layer
\* the rows of the table that belong to a dataset (indices)
RowsOf(table, dataset_id) == {i \in DOMAIN table : table[i].dataset = dataset_id}

\* dataset.statistics: the related row, or DoesNotExist (<<>>)
RelatedStatistics(table, dataset_id) ==
  IF RowsOf(table, dataset_id) = {} THEN <<>>
  ELSE <<table[SetMin(RowsOf(table, dataset_id))]>>

\* the row stamped with the version of the previous release
NewRow_LegacyVersion(dataset_id, analysis, df, now) ==
  [dataset |-> dataset_id,
   computed_at |-> now,
   general_stats |-> analysis.general_stats,
   feature_correlations |-> analysis.feature_correlations,
   event_time_histogram |-> analysis.event_time_histogram,
   schema_version |-> LEGACY_SCHEMA_VERSION,
   input |-> df]

\* the row a save writes: the `defaults` of update_or_create, auto_now
\* computed_at; `input` is a history field (the dataframe analysed), no column
NewRow(dataset_id, analysis, df, now) ==
  [dataset |-> dataset_id,
   computed_at |-> now,
   general_stats |-> analysis.general_stats,
   feature_correlations |-> analysis.feature_correlations,
   event_time_histogram |-> analysis.event_time_histogram,
   schema_version |-> DATASET_STATS_SCHEMA_VERSION,
   input |-> df]

\* the new feature records added to the row's list instead of replacing it
UpdateRow_Appends(row, dataset_id, analysis, df, now) ==
  [NewRow(dataset_id, analysis, df, now) EXCEPT
     !.feature_correlations = row.feature_correlations \o analysis.feature_correlations]

\* the row patched instead of replaced: the histogram of the row kept
UpdateRow_KeepsHistogram(row, dataset_id, analysis, df, now) ==
  [NewRow(dataset_id, analysis, df, now) EXCEPT
     !.event_time_histogram = row.event_time_histogram]

\* update_or_create on a row that exists: every default is set on it and it
\* is saved
UpdateRow(row, dataset_id, analysis, df, now) == NewRow(dataset_id, analysis, df, now)

\* a ForeignKey in place of the OneToOneField: nothing forbids a second row
UniqueAllows_ForeignKey(table, dataset_id) == TRUE

\* the OneToOneField's unique constraint: may a row for dataset_id be inserted
UniqueAllows(table, dataset_id) == RowsOf(table, dataset_id) = {}

\* on_delete=DO_NOTHING without a database constraint: the rows stay
Cascade_DoNothing(table, dataset_id) == table

\* on_delete=CASCADE: the rows that survive the deletion of a dataset
Cascade(table, dataset_id) == SelectSeq(table, LAMBDA r : r.dataset # dataset_id)

\* --------------------------------------------------------------- orchestrator
\* the comparison left at the previous engine version
CacheHit_PreviousVersion(existing, force_recalculate) ==
  /\ existing # <<>>
  /\ ~force_recalculate
  /\ existing[1].schema_version = LEGACY_SCHEMA_VERSION

\* the schema version not compared at all
CacheHit_AnyVersion(existing, force_recalculate) ==
  /\ existing # <<>>
  /\ ~force_recalculate

\* force_recalculate not looked at
CacheHit_IgnoresForce(existing, force_recalculate) ==
  /\ existing # <<>>
  /\ existing[1].schema_version = DATASET_STATS_SCHEMA_VERSION

\* lines 60-64: is the fetched row served from the cache
CacheHit(existing, force_recalculate) ==
  /\ existing # <<>>
  /\ ~force_recalculate
  /\ existing[1].schema_version = DATASET_STATS_SCHEMA_VERSION

NoResult == [kind |-> "none", exc |-> "", stats |-> <<>>, dataframe |-> NoneDF]
Returned(row, df) == [kind |-> "returned", exc |-> "", stats |-> <<row>>, dataframe |-> df]
Raised(exc) == [kind |-> "raised", exc |-> exc, stats |-> <<>>, dataframe |-> NoneDF]

\* line 126: the dataframe handed back
ResultFrame(df) == IF df.isNone THEN DF(<<>>, 0) ELSE df

\* ----------------------------------------------------------------- endpoint
NoResponse == [status |-> 0, code |-> "", data |-> <<>>]

\* no handler for DatabaseError: every exception is the generic failure
StatisticsResponse_OneHandler(result) ==
  IF result.kind = "raised"
  THEN [status |-> 500, code |-> "", data |-> <<>>]
  ELSE [status |-> 200, code |-> "", data |-> result.stats]

\* views.py lines 392-434: the response to the outcome of ensure_dataset_statistics
StatisticsResponse(result) ==
  IF result.kind = "raised" /\ result.exc = "DatabaseError"
  THEN [status |-> 503, code |-> "stats_backend_unavailable", data |-> <<>>]
  ELSE IF result.kind = "raised"
  THEN [status |-> 500, code |-> "", data |-> <<>>]
  ELSE [status |-> 200, code |-> "", data |-> result.stats]

\* what the caller of an operation gets
Outcome(op, result) ==
  IF op = "stats" THEN StatisticsResponse(result) ELSE NoResponse

IdleProc ==
  [pc |-> "idle", op |-> "none", dataset |-> NoDataset,
   force |-> FALSE, include_dataframe |-> FALSE,
   existing |-> <<>>, df |-> NoneDF, analysis |-> EmptyStatistics("month"),
   upserted |-> FALSE, db_failed |-> FALSE,
   result |-> NoResult, response |-> NoResponse]

\* the call ends: its result goes to the caller, the loaded dataframe and the
\* analysis are locals and are gone
Finish(p, q, result) ==
  proc' = [proc EXCEPT ![p] =
             [q EXCEPT !.pc = "done", !.result = result,
                       !.response = Outcome(q.op, result),
                       !.df = NoneDF, !.analysis = IdleProc.analysis]]

\* ================================================================== actions
Others(p) == UNCHANGED <<datasets, nextDataset, storage, lifelines, in_df, in_unit, out, sample_count, bin_count>>

Fresh(op, dataset, force, include_dataframe, pc) ==
  [IdleProc EXCEPT !.pc = pc, !.op = op, !.dataset = dataset,
                   !.force = force, !.include_dataframe = include_dataframe]

\* GET /api/datasets/<d>/stats/?refresh=..., views.py lines 378-391: get_object
\* (404), the 400 for a dataset without file, then ensure_dataset_statistics
BeginStatistics(p, d, refresh) ==
  /\ MayBegin(p)
  /\ calls < MaxCalls
  /\ calls' = calls + 1
  /\ proc' = [proc EXCEPT ![p] =
       IF d \notin DOMAIN datasets
       THEN [Fresh("stats", NoDataset, refresh, FALSE, "done")
               EXCEPT !.response = [status |-> 404, code |-> "", data |-> <<>>]]
       ELSE IF datasets[d].file_path = NoPath
       THEN [Fresh("stats", datasets[d], refresh, FALSE, "done")
               EXCEPT !.response = [status |-> 400, code |-> "", data |-> <<>>]]
       ELSE Fresh("stats", datasets[d], refresh, FALSE, "fetch")]
  /\ UNCHANGED <<statsTable, clock>>
  /\ Others(p)

\* a library call ensure_dataset_statistics(dataset, force_recalculate=...,
\* include_dataframe=...)
BeginEnsure(p, d, force_recalculate, include_dataframe) ==
  /\ MayBegin(p)
  /\ calls < MaxCalls
  /\ d \in DOMAIN datasets
  /\ calls' = calls + 1
  /\ proc' = [proc EXCEPT ![p] =
       Fresh("ensure", datasets[d], force_recalculate, include_dataframe, "fetch")]
  /\ UNCHANGED <<statsTable, clock>>
  /\ Others(p)

\* a library call calculate_and_store_dataset_statistics(dataset)
BeginCalculate(p, d) ==
  /\ MayBegin(p)
  /\ calls < MaxCalls
  /\ d \in DOMAIN datasets
  /\ calls' = calls + 1
  /\ proc' = [proc EXCEPT ![p] = Fresh("calculate", datasets[d], FALSE, FALSE, "load")]
  /\ UNCHANGED <<statsTable, clock>>
  /\ Others(p)

\* ensure_dataset_statistics lines 53-70: fetch the related row; serve it from
\* the cache or go on to recompute.  The fetch may fail with DatabaseError,
\* which is re-raised
EnsureFetch(p) ==
  /\ proc[p].pc = "fetch"
  /\ \/ Finish(p, [proc[p] EXCEPT !.db_failed = TRUE], Raised("DatabaseError"))
     \/ LET q == [proc[p] EXCEPT
                    !.existing = RelatedStatistics(statsTable, proc[p].dataset.dataset_id)]
        IN  IF CacheHit(q.existing, q.force) /\ q.include_dataframe
               /\ GetFullPathRaises(q.dataset)
            THEN Finish(p, q, Raised("SuspiciousFileOperation"))
            ELSE IF CacheHit(q.existing, q.force)
            THEN Finish(p, q,
                   Returned(q.existing[1],
                            IF q.include_dataframe
                            THEN ReadDatasetIntoDataframe(q.dataset, storage)
                            ELSE NoneDF))
            ELSE proc' = [proc EXCEPT ![p] = [q EXCEPT !.pc = "load"]]
  /\ UNCHANGED <<statsTable, clock, calls>>
  /\ Others(p)

\* calculate_and_store_dataset_statistics lines 88-113: load and analyse
Load(p) ==
  /\ proc[p].pc = "load"
  /\ \E df \in {ReadDatasetIntoDataframe(proc[p].dataset, storage)} :
       \E analysis \in {Analyse(df, proc[p].dataset.time_unit, lifelines)} :
         IF GetFullPathRaises(proc[p].dataset)
         THEN Finish(p, proc[p], Raised("SuspiciousFileOperation"))
         ELSE IF analysis.raised
         THEN Finish(p, proc[p], Raised("ValueError"))
         ELSE proc' = [proc EXCEPT ![p].pc = "upsert", ![p].df = df,
                                   ![p].analysis = analysis]
  /\ UNCHANGED <<statsTable, clock, calls>>
  /\ Others(p)
\* the save of an existing row inside update_or_create
SaveExisting(p) ==
  LET q == proc[p]
      i == SetMin(RowsOf(statsTable, q.dataset.dataset_id))
      row == UpdateRow(statsTable[i], q.dataset.dataset_id, q.analysis, q.df, clock + 1)
  IN  /\ statsTable' = [statsTable EXCEPT ![i] = row]
      /\ clock' = clock + 1
      /\ Finish(p, [q EXCEPT !.upserted = TRUE], Returned(row, ResultFrame(q.df)))

\* lines 115-124, update_or_create: the locked lookup; a row found is updated
\* and saved, none found leads to the insert
Upsert(p) ==
  /\ proc[p].pc = "upsert"
  /\ \/ /\ Finish(p, [proc[p] EXCEPT !.db_failed = TRUE], Raised("DatabaseError"))
        /\ UNCHANGED <<statsTable, clock>>
     \/ /\ Cardinality(RowsOf(statsTable, proc[p].dataset.dataset_id)) > 1
        /\ Finish(p, proc[p], Raised("MultipleObjectsReturned"))
        /\ UNCHANGED <<statsTable, clock>>
     \/ /\ Cardinality(RowsOf(statsTable, proc[p].dataset.dataset_id)) = 1
        /\ SaveExisting(p)
     \/ /\ RowsOf(statsTable, proc[p].dataset.dataset_id) = {}
        /\ proc' = [proc EXCEPT ![p].pc = "create"]
        /\ UNCHANGED <<statsTable, clock>>
  /\ UNCHANGED calls
  /\ Others(p)

\* update_or_create, the insert: the foreign key needs the dataset to exist
\* (IntegrityError, a DatabaseError, otherwise); the unique constraint turns a
\* lost race into a lookup and an update of the row that won
Create(p) ==
  /\ proc[p].pc = "create"
  /\ \/ /\ Finish(p, [proc[p] EXCEPT !.db_failed = TRUE], Raised("DatabaseError"))
        /\ UNCHANGED <<statsTable, clock>>
     \/ /\ proc[p].dataset.dataset_id \notin DOMAIN datasets
        /\ Finish(p, [proc[p] EXCEPT !.db_failed = TRUE], Raised("DatabaseError"))
        /\ UNCHANGED <<statsTable, clock>>
     \/ /\ proc[p].dataset.dataset_id \in DOMAIN datasets
        /\ UniqueAllows(statsTable, proc[p].dataset.dataset_id)
        /\ LET q == proc[p]
               row == NewRow(q.dataset.dataset_id, q.analysis, q.df, clock + 1)
           IN  /\ statsTable' = Append(statsTable, row)
               /\ clock' = clock + 1
               /\ Finish(p, [q EXCEPT !.upserted = TRUE], Returned(row, ResultFrame(q.df)))
     \/ /\ proc[p].dataset.dataset_id \in DOMAIN datasets
        /\ ~UniqueAllows(statsTable, proc[p].dataset.dataset_id)
        /\ SaveExisting(p)
  /\ UNCHANGED calls
  /\ Others(p)

Without(f, x) == [y \in DOMAIN f \ {x} |-> f[y]]

ProcFrame == UNCHANGED <<proc, calls, lifelines, in_df, in_unit, out, sample_count, bin_count>>

\* POST /api/datasets/ (DatasetViewSet.create, one transaction): the file is
\* saved, the Dataset row created, process_feature_imputation rewrites the
\* file and stores the statistics of the imputed dataframe.  A table of fewer
\* than 3 columns or an unreadable file ends the imputation before that; an
\* exception out of the statistics is logged and dropped
Upload(content, time_unit, db_fails) ==
  /\ nextDataset \in DatasetIds
  /\ \E df \in {Impute(content.df)} :
       \E analysis \in {Analyse(df, time_unit, lifelines)} :
         \E stored \in {content.kind = "table" /\ Len(content.df.cols) >= 3
                          /\ ~analysis.raised /\ ~db_fails} :
           /\ datasets' = datasets @@
                (nextDataset :> [dataset_id |-> nextDataset,
                                 file_path |-> <<nextDataset>>,
                                 time_unit |-> time_unit])
           /\ nextDataset' = nextDataset + 1
           /\ storage' = storage @@
                (nextDataset :> IF content.kind = "table" /\ Len(content.df.cols) >= 3
                                THEN FileOf(df) ELSE content)
           /\ statsTable' = IF stored
                            THEN Append(statsTable, NewRow(nextDataset, analysis, df, clock + 1))
                            ELSE statsTable
           /\ clock' = IF stored THEN clock + 1 ELSE clock
  /\ ProcFrame
\* Dataset.objects.create(...) without a file (file_path is nullable)
CreateWithoutFile(time_unit) ==
  /\ nextDataset \in DatasetIds
  /\ datasets' = datasets @@
       (nextDataset :> [dataset_id |-> nextDataset, file_path |-> NoPath,
                        time_unit |-> time_unit])
  /\ nextDataset' = nextDataset + 1
  /\ UNCHANGED <<storage, statsTable, clock>>
  /\ ProcFrame

\* Dataset.objects.create(...) with a file_path outside the storage root
\* (file_path is a CharField: any string)
CreateWithOutsidePath(time_unit) ==
  /\ nextDataset \in DatasetIds
  /\ datasets' = datasets @@
       (nextDataset :> [dataset_id |-> nextDataset, file_path |-> OutsidePath,
                        time_unit |-> time_unit])
  /\ nextDataset' = nextDataset + 1
  /\ UNCHANGED <<storage, statsTable, clock>>
  /\ ProcFrame

\* Dataset.delete: the file is deleted (or the deletion fails and is logged),
\* then the row, and with it by cascade its statistics
DeleteDataset(d, file_deleted) ==
  /\ d \in DOMAIN datasets
  /\ datasets' = Without(datasets, d)
  /\ statsTable' = Cascade(statsTable, d)
  /\ storage' = IF file_deleted /\ datasets[d].file_path # NoPath
                THEN Without(storage, datasets[d].file_path[1])
                ELSE storage
  /\ UNCHANGED <<nextDataset, clock>>
  /\ ProcFrame

\* a stored file disappears from storage while its dataset stays
RemoveFile(path) ==
  /\ path \in DOMAIN storage
  /\ storage' = Without(storage, path)
  /\ UNCHANGED <<datasets, nextDataset, statsTable, clock>>
  /\ ProcFrame

\* ------------------------------------------------------------ initial state
\* a row written by the previous engine version (the model's default "v1")
LegacyRow ==
  [NewRow(1, Analyse(TableA, "month", FALSE), TableA, 0)
     EXCEPT !.schema_version = LEGACY_SCHEMA_VERSION]

NotComputed == [done |-> FALSE, res |-> EmptyStatistics("month")]

\* an empty database, or one dataset whose statistics an earlier release
\* computed
Init ==
  /\ lifelines \in BOOLEAN
  /\ \/ /\ datasets = <<>>
        /\ nextDataset = 1
        /\ storage = <<>>
        /\ statsTable = <<>>
     \/ /\ datasets = <<[dataset_id |-> 1, file_path |-> <<1>>, time_unit |-> "month"]>>
        /\ nextDataset = 2
        /\ storage = <<FileOf(TableA)>>
        /\ statsTable = <<LegacyRow>>
  /\ clock = 0
  /\ calls = 0
  /\ proc = [p \in Procs |-> IdleProc]
  /\ in_df = NoneDF
  /\ in_unit = "month"
  /\ out = NotComputed
  /\ sample_count = 0
  /\ bin_count = 0

Next ==
  \/ \E p \in Procs, d \in DatasetIds, refresh \in BOOLEAN :
       BeginStatistics(p, d, refresh)
  \/ \E p \in Procs, d \in DatasetIds, f \in BOOLEAN, i \in BOOLEAN :
       BeginEnsure(p, d, f, i)
  \/ \E p \in Procs, d \in DatasetIds : BeginCalculate(p, d)
  \/ \E p \in Procs : EnsureFetch(p)
  \/ \E p \in Procs : Load(p)
  \/ \E p \in Procs : Upsert(p)
  \/ \E p \in Procs : Create(p)
  \/ \E c \in UploadContents, u \in TimeUnits, f \in BOOLEAN : Upload(c, u, f)
  \/ \E u \in TimeUnits : CreateWithoutFile(u)
  \/ \E u \in TimeUnits : CreateWithOutsidePath(u)
  \/ \E d \in DatasetIds, f \in BOOLEAN : DeleteDataset(d, f)
  \/ \E path \in DatasetIds : RemoveFile(path)

Spec == Init /\ [][Next]_vars
\* ======================================================== the engine alone
\* the statistics computation as a function of the dataframe: every table of
\* up to MaxRows rows under the headers below, with the values pandas reads
\* out of the cells of a CSV column (numbers, nothing, "inf", text)
Headers ==
  {<<N_t>>, <<N_censored>>,
   <<N_t, N_flag>>, <<N_time, N_censored>>, <<N_time, N_Censored>>,
   <<N_t, N_IS_CENSOR>>, <<N_duration, N_status>>, <<N_time, N_event>>,
   <<N_time, N_censored, N_feature_a>>, <<N_event, N_t, N_feature_a>>,
   <<N_feature_a, N_flag, N_time>>, <<N_time, N_status, N_event>>,
   <<N_time, N_censored, N_feature_b>>,
   <<N_flag, N_time>>, <<N_duration, N_time>>}

TimeCells == {Num(1), Num(3), NaN, Inf}
EventCells == {Num(0), Num(1), Num(2), NaN}
BinaryCells == {Num(0), Num(1)}
NumericCells == {Num(1), Num(2)}
TextCells == {Str(0), NaN}

CellsOf(name) ==
  IF name \in {N_t, N_time, N_duration} THEN TimeCells
  ELSE IF name = N_feature_a THEN NumericCells
  ELSE IF name = N_status THEN BinaryCells
  ELSE IF name = N_feature_b THEN TextCells
  ELSE EventCells

\* the values of column i of a table of n rows under header h
ColumnValues(h, i, n) == IF i <= Len(h) THEN [1..n -> CellsOf(h[i])] ELSE {<<>>}

\* tables of three rows and three features: time, status and every choice of
\* the feature columns among rising, falling, constant and text columns
FeatureTables ==
  {DF(<<Col(N_time, <<Num(1), Num(2), Num(4)>>),
        Col(N_status, <<Num(1), Num(0), Num(1)>>),
        Col(N_feature_a, f1), Col(N_feature_b, f2), Col(N_flag, f3)>>, 3) :
     f1, f2, f3 \in {<<Num(1), Num(2), Num(4)>>, <<Num(1), Num(2), Num(2)>>,
                     <<Num(2), Num(1), Num(1)>>, <<Num(4), Num(2), Num(1)>>,
                     <<Num(1), Num(1), Num(1)>>, <<Str(0), NaN, Str(0)>>}}

InitStats ==
  /\ lifelines \in BOOLEAN
  /\ datasets = <<>>
  /\ nextDataset = 1
  /\ storage = <<>>
  /\ statsTable = <<>>
  /\ clock = 0
  /\ calls = 0
  /\ proc = [p \in Procs |-> IdleProc]
  /\ in_unit \in TimeUnits
  /\ out = NotComputed
  /\ sample_count = 0
  /\ bin_count = 0
  /\ \/ in_df \in {NoneDF, DF(<<>>, 0)}
     \/ in_df \in FeatureTables
     \/ \E h \in Headers, n \in 0..MaxRows :
          \E c1 \in ColumnValues(h, 1, n), c2 \in ColumnValues(h, 2, n),
             c3 \in ColumnValues(h, 3, n) :
            in_df = DF([i \in DOMAIN h |-> Col(h[i], <<c1, c2, c3>>[i])], n)

\* _compute_statistics_from_dataframe behind the guard of lines 90-113
Compute ==
  /\ ~out.done
  /\ out' = [done |-> TRUE, res |-> Analyse(in_df, in_unit, lifelines)]
  /\ UNCHANGED <<datasets, nextDataset, storage, statsTable, clock, lifelines,
                 calls, proc, in_df, in_unit, sample_count, bin_count>>

NextStats == Compute

SpecStats == InitStats /\ [][NextStats]_vars
\* =================================================== the bin count alone
\* _determine_histogram_bin_count as a function of its argument: every count
\* up to MaxSampleCount, which lies beyond MAX_HISTOGRAM_BINS squared
InitBins ==
  /\ lifelines = FALSE
  /\ datasets = <<>>
  /\ nextDataset = 1
  /\ storage = <<>>
  /\ statsTable = <<>>
  /\ clock = 0
  /\ calls = 0
  /\ proc = [p \in Procs |-> IdleProc]
  /\ in_df = NoneDF
  /\ in_unit = "month"
  /\ out = NotComputed
  /\ sample_count \in 0..MaxSampleCount
  /\ bin_count = 0

DetermineBins ==
  /\ bin_count = 0
  /\ bin_count' = DetermineHistogramBinCount(sample_count)
  /\ UNCHANGED <<datasets, nextDataset, storage, statsTable, clock, lifelines,
                 calls, proc, in_df, in_unit, out, sample_count>>

SpecBins == InitBins /\ [][DetermineBins]_vars
\* ================================================================ properties
\* the row of the dataset a request is about, as the table holds it
StoredRow(p) == RelatedStatistics(statsTable, proc[p].dataset.dataset_id)

\* C1: a call of ensure_dataset_statistics without force_recalculate, for a
\* dataset whose row has the current schema version, ends at the fetch: it
\* returns that row, recomputes nothing and writes nothing (the table, and so
\* the row's three fields, schema_version and computed_at, is unchanged),
\* whether or not the dataset's file is still in storage.  (A fetch that
\* fails with DatabaseError returns no row.)
C1_CacheHitReturnsRowWithoutWrite ==
  [][\A p \in Procs :
       (/\ proc[p].pc = "fetch"
        /\ proc'[p] # proc[p]
        /\ ~proc'[p].db_failed
        /\ ~proc[p].force
        /\ StoredRow(p) # <<>>
        /\ StoredRow(p)[1].schema_version = DATASET_STATS_SCHEMA_VERSION)
       => /\ proc'[p].pc = "done"
          /\ proc'[p].result.kind = "returned"
          /\ proc'[p].result.stats = StoredRow(p)
          /\ ~proc'[p].upserted
          /\ statsTable' = statsTable]_vars

\* a call returned the cached statistics of a real table although the file
\* had gone: the dataframe it asked for came back unavailable
C1_Witness ==
  \E p \in Procs :
    /\ proc[p].pc = "done"
    /\ proc[p].op = "ensure"
    /\ ~proc[p].force
    /\ proc[p].include_dataframe
    /\ ~proc[p].upserted
    /\ proc[p].result.kind = "returned"
    /\ proc[p].result.stats[1].schema_version = DATASET_STATS_SCHEMA_VERSION
    /\ proc[p].result.stats[1].general_stats.num_samples > 0
    /\ proc[p].result.dataframe.isNone
    /\ proc[p].dataset.file_path # NoPath
    /\ proc[p].dataset.file_path[1] \notin DOMAIN storage

\* must the call recompute, given the row it fetched
MustRecompute(q) ==
  \/ q.existing = <<>>
  \/ q.existing[1].schema_version # DATASET_STATS_SCHEMA_VERSION
  \/ q.force

\* C2: ensure_dataset_statistics leaves the fetch for the recomputation
\* exactly when there is no row, or the row's schema_version is not the
\* current one, or force_recalculate is set; and a call that returns returns
\* a row that is in the table as it returns, has the current schema_version,
\* and was upserted by the call exactly in those three cases.
C2_RecomputeIffMissingStaleOrForced ==
  [][\A p \in Procs :
       /\ (proc[p].pc = "fetch" /\ proc'[p] # proc[p] /\ ~proc'[p].db_failed)
            => (proc'[p].pc = "load" <=> MustRecompute(proc'[p]))
       /\ (/\ proc[p].pc # "done"
           /\ proc'[p].pc = "done"
           /\ proc'[p].op \in {"ensure", "stats"}
           /\ proc'[p].result.kind = "returned")
            => /\ proc'[p].result.stats[1].schema_version = DATASET_STATS_SCHEMA_VERSION
               /\ \E i \in DOMAIN statsTable' : statsTable'[i] = proc'[p].result.stats[1]
               /\ proc'[p].upserted <=> MustRecompute(proc'[p])]_vars

\* a call without force found the row of the previous engine version,
\* recomputed and returned the row it upserted
C2_Witness ==
  \E p \in Procs :
    /\ proc[p].pc = "done"
    /\ proc[p].op \in {"ensure", "stats"}
    /\ ~proc[p].force
    /\ proc[p].existing # <<>>
    /\ proc[p].existing[1].schema_version = LEGACY_SCHEMA_VERSION
    /\ proc[p].upserted
    /\ proc[p].result.kind = "returned"
    /\ proc[p].result.stats[1].schema_version = DATASET_STATS_SCHEMA_VERSION

\* C3: whatever the interleaving of uploads, ensure_dataset_statistics and
\* calculate_and_store_dataset_statistics calls, no two rows of the
\* statistics table belong to the same dataset.
C3_AtMostOneRowPerDataset ==
  \A i, j \in DOMAIN statsTable :
    statsTable[i].dataset = statsTable[j].dataset => i = j

\* two concurrent requests both found no row, both recomputed and both
\* upserted, and the table holds one row
C3_Witness ==
  /\ \A p \in Procs :
       /\ proc[p].pc = "done"
       /\ proc[p].op = "ensure"
       /\ proc[p].existing = <<>>
       /\ proc[p].upserted
  /\ Len(statsTable) = 1
\* ------------------------------------------------ properties of the engine
\* the dataframe handed to the engine has rows
HasData == ~in_df.isNone /\ ~Empty(in_df)

\* the entries of the resolved event column, or <<>> when none is resolved
EventColumnCells ==
  IF ~HasData THEN <<>>
  ELSE LET censor_col == CensorCol(in_df)
       IN  IF censor_col # NoName THEN Series(in_df, censor_col) ELSE <<>>

\* the event indicator is derivable: the resolved event column has a numeric
\* entry and its numeric entries are all 0 or 1
Derivable ==
  LET cells == EventColumnCells
  IN  /\ \E i \in DOMAIN cells : cells[i].k \in {"num", "inf"}
      /\ \A i \in DOMAIN cells :
           cells[i].k \in {"num", "inf"} => cells[i] \in {Num(0), Num(1)}

\* C4: in every record the engine produces, num_events and num_censored are
\* numbers that add up to num_samples when the event indicator is derivable,
\* and are both null when it is not (no event column, values other than 0/1,
\* no data); never exactly one of them is null.
C4_EventsPlusCensoredIsSamples ==
  (out.done /\ ~out.res.raised) =>
    IF Derivable
    THEN /\ out.res.general_stats.num_events.k = "num"
         /\ out.res.general_stats.num_censored.k = "num"
         /\ out.res.general_stats.num_events.n + out.res.general_stats.num_censored.n
              = out.res.general_stats.num_samples
    ELSE /\ IsNone(out.res.general_stats.num_events)
         /\ IsNone(out.res.general_stats.num_censored)

\* a derivable column with a missing entry: events, censored rows and the
\* missing one are all counted
C4_Witness ==
  /\ out.done
  /\ Derivable
  /\ \E i \in DOMAIN EventColumnCells : EventColumnCells[i].k = "nan"
  /\ out.res.general_stats.num_samples = MaxRows
  /\ out.res.general_stats.num_events.n >= 1
  /\ out.res.general_stats.num_censored.n >= 1

\* the time values the histogram is built from: numeric and not null
ValidTimes ==
  IF HasData THEN DropNa(TimeNumeric(in_df, TimeCol(in_df)).vals) ELSE <<>>

HistogramCounts ==
  [i \in DOMAIN out.res.event_time_histogram |-> out.res.event_time_histogram[i].count]

BinsAddUp ==
  \A i \in DOMAIN out.res.event_time_histogram :
    out.res.event_time_histogram[i].events + out.res.event_time_histogram[i].censored
      = out.res.event_time_histogram[i].count

\* C5 as stated: every bin has events + censored = count, and the counts of
\* all bins add up to the number of valid time values.
C5_Original_CountsSumToValidTimes ==
  (out.done /\ ~out.res.raised) =>
    /\ BinsAddUp
    /\ SumSeq(HistogramCounts) = Len(ValidTimes)

\* C5, amended: every bin has events + censored = count; when every valid
\* time value is finite the counts of all bins add up to the number of valid
\* time values; when a valid time value is infinite the binning fails and the
\* histogram is the empty list.
C5_CountsSumToFiniteValidTimes ==
  (out.done /\ ~out.res.raised) =>
    /\ BinsAddUp
    /\ ~HasInf(ValidTimes) => SumSeq(HistogramCounts) = Len(ValidTimes)
    /\ HasInf(ValidTimes) => out.res.event_time_histogram = <<>>

\* a histogram over two distinct finite times, one an event and one censored
C5_Witness ==
  /\ out.done
  /\ ~HasInf(ValidTimes)
  /\ Len(ValidTimes) = MaxRows
  /\ Len(out.res.event_time_histogram) = MIN_HISTOGRAM_BINS
  /\ \E i \in DOMAIN out.res.event_time_histogram :
       out.res.event_time_histogram[i].events = 1
  /\ \E i \in DOMAIN out.res.event_time_histogram :
       out.res.event_time_histogram[i].censored = 1

\* the column names of the tables that contain "censor" in any case
CensorNames == {N_censored, N_Censored, N_IS_CENSOR}

\* the resolved event column holds nothing but 0 and 1
OnlyZeroOne ==
  LET cells == EventColumnCells
  IN  /\ cells # <<>>
      /\ \A i \in DOMAIN cells : cells[i] \in {Num(0), Num(1)}

CellCount(v) ==
  LET cells == EventColumnCells
  IN  Cardinality({i \in DOMAIN cells : cells[i] = v})

\* C7: for an event column holding only 0/1 values, a name that contains
\* "censor" in any case is inverted (events = rows with 0, censored = rows
\* with 1), and any other name passes through (events = rows with 1,
\* censored = rows with 0).
C7_InvertsExactlyCensorNames ==
  (out.done /\ ~out.res.raised /\ OnlyZeroOne) =>
    IF CensorCol(in_df) \in CensorNames
    THEN /\ out.res.general_stats.num_events = Num(CellCount(Num(0)))
         /\ out.res.general_stats.num_censored = Num(CellCount(Num(1)))
    ELSE /\ out.res.general_stats.num_events = Num(CellCount(Num(1)))
         /\ out.res.general_stats.num_censored = Num(CellCount(Num(0)))

\* a column named in upper case, every row censored
C7_Witness ==
  /\ out.done
  /\ OnlyZeroOne
  /\ CensorCol(in_df) = N_IS_CENSOR
  /\ CellCount(Num(1)) = MaxRows
  /\ out.res.general_stats.num_events = Num(0)
  /\ out.res.general_stats.num_censored = Num(MaxRows)
\* ------------------------------------------- properties of the orchestrator
\* p takes the step that ends its upsert (the update, or the insert)
EndsUpsert(p) ==
  /\ proc[p].pc \in {"upsert", "create"}
  /\ proc'[p].pc = "done"

SameStatistics(r1, r2) ==
  /\ r1.general_stats = r2.general_stats
  /\ r1.feature_correlations = r2.feature_correlations
  /\ r1.event_time_histogram = r2.event_time_histogram

IsNullRecord(row) ==
  /\ row.general_stats.num_samples = 0
  /\ row.general_stats.num_features = 0
  /\ IsNone(row.general_stats.time_min)
  /\ IsNone(row.general_stats.time_max)
  /\ IsNone(row.general_stats.time_mean)
  /\ IsNone(row.general_stats.time_median)
  /\ row.feature_correlations = <<>>
  /\ row.event_time_histogram = <<>>

Unavailable(df) == df.isNone \/ Empty(df)

\* p ends its upsert with the row `row` in the table and returned to it
StoresAndReturns(p) ==
  /\ proc'[p].result.kind = "returned"
  /\ RelatedStatistics(statsTable', proc[p].dataset.dataset_id) = proc'[p].result.stats

\* C8: when the dataset has no file path, or its file (at a path inside the
\* storage root) is missing, unparseable or without rows, the computation
\* raises nothing and goes on to the upsert,
\* and the upsert (unless the database fails) stores and returns the null
\* record.
C8_NoDataStoresNullRecord ==
  [][\A p \in Procs :
       /\ (/\ proc[p].pc = "load"
           /\ proc'[p] # proc[p]
           /\ ~GetFullPathRaises(proc[p].dataset)
           /\ Unavailable(ReadDatasetIntoDataframe(proc[p].dataset, storage)))
            => /\ proc'[p].pc = "upsert"
               /\ Unavailable(proc'[p].df)
       /\ (EndsUpsert(p) /\ Unavailable(proc[p].df) /\ ~proc'[p].db_failed)
            => /\ StoresAndReturns(p)
               /\ IsNullRecord(proc'[p].result.stats[1])]_vars

\* the statistics of a dataset without a file path were asked for, and the
\* null record was stored
C8_Witness ==
  \E p \in Procs :
    /\ proc[p].pc = "done"
    /\ proc[p].op = "ensure"
    /\ proc[p].dataset.file_path = NoPath
    /\ proc[p].upserted
    /\ proc[p].result.kind = "returned"
    /\ IsNullRecord(proc[p].result.stats[1])
    /\ statsTable = proc[p].result.stats

\* a forced call of ensure_dataset_statistics that fetched a current row
ForcedOnCurrent(q) ==
  /\ q.op \in {"ensure", "stats"}
  /\ q.force
  /\ q.existing # <<>>
  /\ q.existing[1].schema_version = DATASET_STATS_SCHEMA_VERSION

\* C9: a forced call for a dataset with a current row goes on to reload; when
\* the file is gone the load raises nothing, and the upsert (unless the
\* database fails) puts the null record in the place of the cached row: the
\* dataset still has one row, at the same place, and it is returned.
C9_ForcedRecomputeWithoutFileStoresNullRecord ==
  [][\A p \in Procs :
       /\ (/\ proc[p].pc = "fetch"
           /\ proc'[p] # proc[p]
           /\ ~proc'[p].db_failed
           /\ proc[p].force)
            => proc'[p].pc = "load"
       /\ (/\ proc[p].pc = "load"
           /\ proc'[p] # proc[p]
           /\ ForcedOnCurrent(proc[p])
           /\ proc[p].dataset.file_path # NoPath
           /\ proc[p].dataset.file_path[1] \notin DOMAIN storage)
            => (proc'[p].pc = "upsert" /\ proc'[p].df.isNone)
       /\ (/\ EndsUpsert(p)
           /\ ForcedOnCurrent(proc[p])
           /\ proc[p].df.isNone
           /\ ~proc'[p].db_failed)
            => /\ StoresAndReturns(p)
               /\ IsNullRecord(proc'[p].result.stats[1])
               /\ Cardinality(RowsOf(statsTable', proc[p].dataset.dataset_id)) = 1
               /\ StoredRow(p) # <<>>
                    => RowsOf(statsTable', proc[p].dataset.dataset_id)
                         = RowsOf(statsTable, proc[p].dataset.dataset_id)]_vars

\* the cached statistics of a real table were replaced by the null record
\* by a forced call after the file was deleted
C9_Witness ==
  \E p \in Procs :
    /\ proc[p].pc = "done"
    /\ ForcedOnCurrent(proc[p])
    /\ proc[p].existing[1].general_stats.num_samples > 0
    /\ proc[p].dataset.file_path # NoPath
    /\ proc[p].dataset.file_path[1] \notin DOMAIN storage
    /\ proc[p].upserted
    /\ proc[p].result.kind = "returned"
    /\ IsNullRecord(proc[p].result.stats[1])
    /\ statsTable = proc[p].result.stats

\* C10: a call in which the database failed while the row was fetched or
\* upserted ends with DatabaseError raised to its caller; the endpoint answers
\* it with 503 and the code stats_backend_unavailable and no statistics, and
\* answers 503 to nothing else: another failure is a 500, a result a 200.
C10_DatabaseErrorIsStorageUnavailable ==
  \A p \in Procs :
    proc[p].pc = "done" =>
      /\ proc[p].db_failed =>
           (proc[p].result.kind = "raised" /\ proc[p].result.exc = "DatabaseError")
      /\ (proc[p].op = "stats" /\ proc[p].result.kind = "raised")
           => IF proc[p].result.exc = "DatabaseError"
              THEN /\ proc[p].response.status = 503
                   /\ proc[p].response.code = "stats_backend_unavailable"
                   /\ proc[p].response.data = <<>>
              ELSE /\ proc[p].response.status = 500
                   /\ proc[p].response.code # "stats_backend_unavailable"
      /\ (proc[p].op = "stats" /\ proc[p].response.status = 503)
           => proc[p].db_failed

\* one request met a failing database and another a failing computation
C10_Witness ==
  /\ proc["r1"].pc = "done"
  /\ proc["r1"].op = "stats"
  /\ proc["r1"].db_failed
  /\ proc["r1"].response.status = 503
  /\ proc["r2"].pc = "done"
  /\ proc["r2"].op = "stats"
  /\ proc["r2"].result.kind = "raised"
  /\ proc["r2"].response.status = 500

\* C11: a statistics request for a dataset that has no file is answered (the
\* database working) with status 200 and a statistics record of zero counts,
\* null time statistics and empty lists, not with an error status.
C11_NoFileAnswers200WithNullRecord ==
  \A p \in Procs :
    (/\ proc[p].pc = "done"
     /\ proc[p].op = "stats"
     /\ proc[p].dataset # NoDataset
     /\ proc[p].dataset.file_path = NoPath
     /\ ~proc[p].db_failed)
    => /\ proc[p].response.status = 200
       /\ proc[p].response.data # <<>>
       /\ IsNullRecord(proc[p].response.data[1])

\* C12: every upload that completes (the create request answers 201 and the
\* new dataset has a stored file) leaves a statistics row for the new dataset,
\* whatever the shape of the uploaded table.
C12_UploadStoresStatistics ==
  [][(nextDataset' = nextDataset + 1 /\ nextDataset \in DOMAIN storage')
       => RowsOf(statsTable', nextDataset) # {}]_vars

\* the position of a column in the table handed to the engine
ColumnIndex(name) ==
  CHOOSE k \in DOMAIN Columns(in_df) : Columns(in_df)[k] = name

\* C13: feature_correlations holds one record per feature column; every
\* record with a correlation precedes every record without one, the records
\* with a correlation are in non-increasing abs_correlation order, and records
\* of equal abs_correlation (and the records without one) are in column order.
C13_FeatureCorrelationsSorted ==
  (out.done /\ ~out.res.raised /\ HasData) =>
    /\ Len(out.res.feature_correlations) = Len(FeatureColumns(in_df))
    /\ \A k \in DOMAIN FeatureColumns(in_df) :
         \E i \in DOMAIN out.res.feature_correlations :
           out.res.feature_correlations[i].feature = FeatureColumns(in_df)[k]
    /\ \A i, j \in DOMAIN out.res.feature_correlations :
         i < j =>
           /\ IsNone(out.res.feature_correlations[i].abs_correlation)
                => IsNone(out.res.feature_correlations[j].abs_correlation)
           /\ (~IsNone(out.res.feature_correlations[j].abs_correlation))
                => ~RLess(out.res.feature_correlations[i].abs_correlation,
                          out.res.feature_correlations[j].abs_correlation)
           /\ (out.res.feature_correlations[i].abs_correlation
                 = out.res.feature_correlations[j].abs_correlation)
                => ColumnIndex(out.res.feature_correlations[i].feature)
                     < ColumnIndex(out.res.feature_correlations[j].feature)

\* the first feature has no correlation and ends last; the two others come
\* out in the reverse of their column order, the stronger first
C13_Witness ==
  /\ out.done
  /\ Len(out.res.feature_correlations) = 3
  /\ out.res.feature_correlations[3].feature = N_feature_a
  /\ IsNone(out.res.feature_correlations[3].abs_correlation)
  /\ out.res.feature_correlations[1].feature = N_flag
  /\ out.res.feature_correlations[2].feature = N_feature_b
  /\ RLess(out.res.feature_correlations[2].abs_correlation,
           out.res.feature_correlations[1].abs_correlation)

\* C14: the check and the upsert are not under one lock: two concurrent
\* requests may both find nothing to serve, both recompute and both upsert.
\* Every upsert that commits leaves the dataset exactly one row, and that row
\* (the three JSON fields, schema_version, computed_at) is the complete output
\* of the computation that upsert belongs to and is what the call returns: the
\* row is that of the upsert that committed last, never a mix of two.
C14_LastUpsertWinsWhole ==
  [][\A p \in Procs :
       (EndsUpsert(p) /\ proc'[p].upserted)
         => /\ Cardinality(RowsOf(statsTable', proc[p].dataset.dataset_id)) = 1
            /\ RelatedStatistics(statsTable', proc[p].dataset.dataset_id)[1]
                 = [dataset |-> proc[p].dataset.dataset_id,
                    computed_at |-> clock',
                    general_stats |-> proc[p].analysis.general_stats,
                    feature_correlations |-> proc[p].analysis.feature_correlations,
                    event_time_histogram |-> proc[p].analysis.event_time_histogram,
                    schema_version |-> DATASET_STATS_SCHEMA_VERSION,
                    input |-> proc[p].df]
            /\ proc'[p].result.stats
                 = RelatedStatistics(statsTable', proc[p].dataset.dataset_id)
            /\ \A i \in DOMAIN statsTable' :
                 statsTable'[i].computed_at <= clock']_vars

\* two requests without force both fetched the same stale row, recomputed
\* from different file contents (the file went in between) and both upserted:
\* the one row left is the whole output of the later upsert, and differs from
\* the earlier one's in each of the three fields
C14_Witness ==
  /\ \A p \in Procs :
       /\ proc[p].pc = "done"
       /\ proc[p].op = "ensure"
       /\ ~proc[p].force
       /\ proc[p].upserted
       /\ proc[p].result.kind = "returned"
  /\ proc["r1"].existing = proc["r2"].existing
  /\ Len(statsTable) = 1
  /\ \E p, q \in Procs :
       /\ proc[p].result.stats[1].computed_at < proc[q].result.stats[1].computed_at
       /\ statsTable[1] = proc[q].result.stats[1]
       /\ statsTable[1].general_stats # proc[p].result.stats[1].general_stats
       /\ statsTable[1].feature_correlations # proc[p].result.stats[1].feature_correlations
       /\ statsTable[1].event_time_histogram # proc[p].result.stats[1].event_time_histogram

\* C15: in every state, every row of the statistics table belongs to a
\* dataset that exists: deleting a dataset deletes its row with it, also when
\* the deletion of the stored file failed, and no request running across the
\* deletion brings a row back.
C15_NoRowWithoutDataset ==
  \A i \in DOMAIN statsTable : statsTable[i].dataset \in DOMAIN datasets

\* a dataset whose statistics a request had stored was deleted while the
\* deletion of its file failed (the file is still in storage), and a second
\* request on the dataset ended on a database error without writing
C15_Witness ==
  /\ datasets = <<>>
  /\ statsTable = <<>>
  /\ 1 \in DOMAIN storage
  /\ \E p, q \in Procs :
       /\ proc[p].pc = "done"
       /\ proc[p].dataset.dataset_id = 1
       /\ proc[p].upserted
       /\ proc[q].pc = "done"
       /\ proc[q].dataset.dataset_id = 1
       /\ proc[q].db_failed
       /\ ~proc[q].upserted

\* ---------------------------------------------- properties of the bin count
\* b is x clamped to [MIN_HISTOGRAM_BINS, MAX_HISTOGRAM_BINS]
IsClamped(b, x) ==
  /\ b \in MIN_HISTOGRAM_BINS..MAX_HISTOGRAM_BINS
  /\ x < MIN_HISTOGRAM_BINS => b = MIN_HISTOGRAM_BINS
  /\ x > MAX_HISTOGRAM_BINS => b = MAX_HISTOGRAM_BINS
  /\ x \in MIN_HISTOGRAM_BINS..MAX_HISTOGRAM_BINS => b = x

\* r is the square root of n rounded to the nearest integer
IsRoundedRoot(r, n) ==
  (2 * r - 1) * (2 * r - 1) <= 4 * n /\ 4 * n < (2 * r + 1) * (2 * r + 1)

\* r is the square root of n rounded down
IsRootRoundedDown(r, n) == r * r <= n /\ n < (r + 1) * (r + 1)

\* C16 as stated: for every count n >= 1 the number of bins is the square
\* root of n rounded to the nearest integer, clamped to [5, 20].
C16_Original_BinsAreRoundedRoot ==
  (bin_count # 0 /\ sample_count >= 1) =>
    \E r \in 0..sample_count :
      IsRoundedRoot(r, sample_count) /\ IsClamped(bin_count, r)

\* C16, amended: for every count n >= 1 the number of bins is the square
\* root of n rounded down (truncated) to an integer, clamped to [5, 20].
C16_BinsAreRootRoundedDown ==
  (bin_count # 0 /\ sample_count >= 1) =>
    \E r \in 0..sample_count :
      IsRootRoundedDown(r, sample_count) /\ IsClamped(bin_count, r)

\* 399 values: the root is 19.97.., and 19 bins are chosen, not 20
C16_Witness ==
  /\ sample_count = MAX_HISTOGRAM_BINS * MAX_HISTOGRAM_BINS - 1
  /\ bin_count = MAX_HISTOGRAM_BINS - 1

\* ------------------------------------------ properties of the column roles
\* the names of a candidate list, as a set
NameSet(candidates) == {candidates[i] : i \in DOMAIN candidates}

\* C17: for every table with rows, the resolved event column (when one is
\* resolved) is not the resolved time column, whether the roles were resolved
\* by name or by position.
C17_EventColumnIsNotTimeColumn ==
  (out.done /\ HasData /\ CensorCol(in_df) # NoName)
    => CensorCol(in_df) # TimeCol(in_df)

\* C18: the time column of a table with rows is the first column, in the
\* order of the table's columns, whose name is one of the time candidates, and
\* the table's first column when no column name is.
C18_TimeColumnIsFirstMatchingColumn ==
  (out.done /\ HasData) =>
    TimeCol(in_df) =
      IF ColumnSet(in_df) \cap NameSet(TIME_CANDIDATES) = {}
      THEN Columns(in_df)[1]
      ELSE Columns(in_df)[SetMin({k \in DOMAIN Columns(in_df) :
                                    Columns(in_df)[k] \in NameSet(TIME_CANDIDATES)})]

\* C19: for a table of fewer than 2 columns no event column is resolved,
\* whatever the column's name, and num_events and num_censored are null.
C19_OneColumnHasNoEventColumn ==
  (out.done /\ ~out.res.raised /\ HasData /\ Len(in_df.cols) < 2) =>
    /\ CensorCol(in_df) = NoName
    /\ IsNone(out.res.general_stats.num_events)
    /\ IsNone(out.res.general_stats.num_censored)

\* C20: for a table of two columns or more none of which is named as an
\* event candidate, an event column is resolved, and it is the column right
\* after the time column.
C20_FallbackIsColumnAfterTimeColumn ==
  (/\ out.done
   /\ HasData
   /\ Len(in_df.cols) >= 2
   /\ ColumnSet(in_df) \cap NameSet(CENSOR_CANDIDATES) = {})
    => /\ CensorCol(in_df) # NoName
       /\ ColumnIndex(TimeCol(in_df)) < Len(in_df.cols)
       /\ CensorCol(in_df) = Columns(in_df)[ColumnIndex(TimeCol(in_df)) + 1]

\* ------------------------------------------ properties of the feature list
\* the features that have a record in feature_correlations
RecordedFeatures ==
  {out.res.feature_correlations[i].feature : i \in DOMAIN out.res.feature_correlations}

\* C21: feature_correlations has a record for exactly the columns that are
\* neither the resolved time column nor the resolved event column.
C21_FeaturesAreColumnsWithoutRole ==
  (out.done /\ ~out.res.raised /\ HasData) =>
    RecordedFeatures = ColumnSet(in_df) \ {TimeCol(in_df), CensorCol(in_df)}

\* C22: for every table with rows, num_features is the number of columns
\* after the first two (none for a table of one or two columns),
\* total_columns the number of columns, and feature_correlations holds
\* exactly one record for each column after the first two and no other.
C22_FeaturesAreColumnsAfterFirstTwo ==
  (out.done /\ ~out.res.raised /\ HasData) =>
    /\ out.res.general_stats.total_columns = Len(in_df.cols)
    /\ out.res.general_stats.num_features
         = IF Len(in_df.cols) > 2 THEN Len(in_df.cols) - 2 ELSE 0
    /\ Len(out.res.feature_correlations) = out.res.general_stats.num_features
    /\ RecordedFeatures = {Columns(in_df)[k] : k \in 3..Len(in_df.cols)}
    /\ Cardinality(RecordedFeatures) = out.res.general_stats.num_features

\* a table whose time column is the third column by name: the one feature
\* record is that of the time column itself
C22_Witness ==
  /\ out.done
  /\ ~out.res.raised
  /\ HasData
  /\ Columns(in_df) = <<N_feature_a, N_flag, N_time>>
  /\ TimeCol(in_df) = N_time
  /\ out.res.general_stats.num_features = 1
  /\ RecordedFeatures = {N_time}

\* C23: a failure while one feature's Cox score is prepared, checked or
\* fitted leaves that feature's cox_score and cox_score_log null and nothing
\* else: for every table with rows the computation ends with a statistics
\* record that holds a record for every feature column.
C23_CoxFailureStaysWithItsFeature ==
  (out.done /\ HasData) =>
    /\ ~out.res.raised
    /\ Len(out.res.feature_correlations) = Len(FeatureColumns(in_df))

\* C24: the loader never raises and changes nothing: whenever there is no
\* file path, the file is not in storage, or the path cannot be resolved or
\* the file not parsed, the load ends with the dataframe unavailable (None)
\* and the computation goes on to store the null record.
C24_LoaderNeverRaises ==
  [][\A p \in Procs :
       (/\ proc[p].pc = "load"
        /\ proc'[p] # proc[p]
        /\ ReadDatasetIntoDataframe(proc[p].dataset, storage).isNone)
         => /\ proc'[p].pc = "upsert"
            /\ proc'[p].df.isNone
            /\ storage' = storage
            /\ statsTable' = statsTable]_vars

\* the resolved event column has a numeric entry other than 0 and 1
OutsideZeroOne ==
  LET cells == EventColumnCells
  IN  \E i \in DOMAIN cells :
        /\ cells[i].k \in {"num", "inf"}
        /\ cells[i] \notin {Num(0), Num(1)}

\* C25: when the resolved event column has a numeric value other than 0 and
\* 1, whatever the column is called, num_events and num_censored are null and
\* every row counts as an event: every histogram bin has events = count and
\* censored = 0.
C25_ValueOutsideZeroOneMakesAllEvents ==
  (out.done /\ ~out.res.raised /\ OutsideZeroOne) =>
    /\ IsNone(out.res.general_stats.num_events)
    /\ IsNone(out.res.general_stats.num_censored)
    /\ \A i \in DOMAIN out.res.event_time_histogram :
         /\ out.res.event_time_histogram[i].events
              = out.res.event_time_histogram[i].count
         /\ out.res.event_time_histogram[i].censored = 0

\* a column named "censored" holding a 2 beside a 1, over two distinct times:
\* both rows are binned as events
C25_Witness ==
  /\ out.done
  /\ ~out.res.raised
  /\ OutsideZeroOne
  /\ CensorCol(in_df) \in CensorNames
  /\ \E i \in DOMAIN EventColumnCells : EventColumnCells[i] = Num(1)
  /\ IsNone(out.res.general_stats.num_events)
  /\ Len(out.res.event_time_histogram) = MIN_HISTOGRAM_BINS
  /\ SumSeq([i \in DOMAIN out.res.event_time_histogram |->
               out.res.event_time_histogram[i].events]) = MaxRows

\* the histogram of the record has one entry for each of the bins chosen for
\* the valid times, in increasing time order and without gaps
OneEntryPerBin ==
  /\ Len(out.res.event_time_histogram) \in MIN_HISTOGRAM_BINS..MAX_HISTOGRAM_BINS
  /\ Len(out.res.event_time_histogram) = DetermineHistogramBinCount(Len(ValidTimes))
  /\ \A i \in 1..(Len(out.res.event_time_histogram) - 1) :
       /\ RLess(out.res.event_time_histogram[i].bin_start,
                out.res.event_time_histogram[i + 1].bin_start)
       /\ out.res.event_time_histogram[i].bin_end
            = out.res.event_time_histogram[i + 1].bin_start

\* C26 as stated: the histogram is the empty list when there is no valid
\* numeric time value, and otherwise has one entry per bin, 5 to 20 bins, in
\* increasing time order.
C26_Original_HistogramUnlessNoValidTime ==
  (out.done /\ ~out.res.raised) =>
    IF ValidTimes = <<>>
    THEN out.res.event_time_histogram = <<>>
    ELSE OneEntryPerBin

\* C26, amended: the histogram is the empty list when there is no valid
\* numeric time value or when a valid time value is infinite (the binning
\* fails and the failure is caught); otherwise it has one entry per bin, 5 to
\* 20 bins, with bin_start strictly increasing and each bin_end equal to the
\* next bin_start.
C26_HistogramUnlessNoFiniteRange ==
  (out.done /\ ~out.res.raised) =>
    IF ValidTimes = <<>> \/ HasInf(ValidTimes)
    THEN out.res.event_time_histogram = <<>>
    ELSE OneEntryPerBin

\* every valid time is the same value: the range is widened by a half on each
\* side and cut into five bins
C26_Witness ==
  /\ out.done
  /\ ~out.res.raised
  /\ Len(ValidTimes) = MaxRows
  /\ \A i \in DOMAIN ValidTimes : ValidTimes[i] = Num(1)
  /\ Len(out.res.event_time_histogram) = MIN_HISTOGRAM_BINS
  /\ out.res.event_time_histogram[1].bin_start = Rat(1, 2)
  /\ out.res.event_time_histogram[MIN_HISTOGRAM_BINS].bin_end = Rat(3, 2)

\* the rows with a valid time and indicator 0 whose time lies between the
\* edges of bin b of the record (left-closed; the last bin closed on the right)
CensoredRowsInBin(b) ==
  LET times == TimeNumeric(in_df, TimeCol(in_df)).vals
      indicator == EventIndicator(in_df).ind
      bin == out.res.event_time_histogram[b]
  IN  {i \in 1..in_df.nrows :
         /\ NotNa(times[i])
         /\ indicator[i] # 1
         /\ ~RLess(times[i], bin.bin_start)
         /\ \/ RLess(times[i], bin.bin_end)
            \/ /\ b = Len(out.res.event_time_histogram)
               /\ ~RLess(bin.bin_end, times[i])}

\* C27: in every bin, censored (count - events) is the number of censored
\* rows (valid time, indicator 0) that fall between the bin's edges, and
\* 0 <= events <= count, so censored is never negative.
C27_CensoredIsRehistogramOfCensoredRows ==
  (out.done /\ ~out.res.raised) =>
    \A b \in DOMAIN out.res.event_time_histogram :
      /\ out.res.event_time_histogram[b].censored = Cardinality(CensoredRowsInBin(b))
      /\ 0 <= out.res.event_time_histogram[b].events
      /\ out.res.event_time_histogram[b].events <= out.res.event_time_histogram[b].count
      /\ out.res.event_time_histogram[b].censored >= 0

\* a censored row at the largest time (on the closing edge of the last bin)
\* and an event in the first bin
C27_Witness ==
  /\ out.done
  /\ ~out.res.raised
  /\ Len(out.res.event_time_histogram) = MIN_HISTOGRAM_BINS
  /\ out.res.event_time_histogram[1].events = 1
  /\ out.res.event_time_histogram[1].censored = 0
  /\ out.res.event_time_histogram[MIN_HISTOGRAM_BINS].events = 0
  /\ out.res.event_time_histogram[MIN_HISTOGRAM_BINS].censored = 1
  /\ CensoredRowsInBin(MIN_HISTOGRAM_BINS) # {}

\* the step of p on which its computation or its database access fails
FailsAtStep(p) ==
  \/ /\ proc[p].pc = "load"
     /\ proc'[p] # proc[p]
     /\ \/ GetFullPathRaises(proc[p].dataset)
        \/ Analyse(ReadDatasetIntoDataframe(proc[p].dataset, storage),
                   proc[p].dataset.time_unit, lifelines).raised
  \/ ~proc[p].db_failed /\ proc'[p].db_failed

\* the step is an upload that reaches the statistics step (a table of three
\* columns or more) and completes
UploadReachesStatistics ==
  /\ nextDataset' = nextDataset + 1
  /\ nextDataset \in DOMAIN storage'
  /\ storage'[nextDataset].kind = "table"
  /\ Len(storage'[nextDataset].df.cols) >= 3

\* C28: a failure while computing or storing statistics ends the call at
\* once (no retry) and reaches the caller, on the retrieval path (the call
\* raises, the endpoint answers 500 or 503) and on the upload path alike: an
\* upload that reaches the statistics step and completes without an error has
\* stored the row.
C28_FailuresReachTheCaller ==
  [][/\ \A p \in Procs :
          FailsAtStep(p) =>
            /\ proc'[p].pc = "done"
            /\ proc'[p].result.kind = "raised"
            /\ proc'[p].op = "stats" => proc'[p].response.status \in {500, 503}
     /\ UploadReachesStatistics => RowsOf(statsTable', nextDataset) # {}]_vars

\* the rows whose event-column entry maps to indicator 1: the entry 0 under a
\* name that contains "censor", the entry 1 under any other name
EventEntries ==
  IF CensorCol(in_df) \in CensorNames THEN CellCount(Num(0)) ELSE CellCount(Num(1))

\* C29: when the event indicator is derivable, num_events is the number of
\* rows whose event-column entry maps to indicator 1 and num_censored is
\* num_samples minus that number: a row whose entry is missing or not numeric
\* counts as censored, whether or not the column name contains "censor".
C29_MissingEntriesCountAsCensored ==
  (out.done /\ ~out.res.raised /\ Derivable) =>
    /\ out.res.general_stats.num_events = Num(EventEntries)
    /\ out.res.general_stats.num_censored
         = Num(out.res.general_stats.num_samples - EventEntries)

\* a column named with "censor" holding a 0 and otherwise missing entries: the
\* row with 0 is the event, every row with a missing entry is censored
C29_Witness ==
  /\ out.done
  /\ ~out.res.raised
  /\ Derivable
  /\ CensorCol(in_df) \in CensorNames
  /\ CellCount(Num(0)) = 1
  /\ CellCount(NaN) = MaxRows - 1
  /\ out.res.general_stats.num_events = Num(1)
  /\ out.res.general_stats.num_censored = Num(MaxRows - 1)

\* q is a non-forced call that fetched a row of another schema version
UnforcedOnLegacy(q) ==
  /\ q.op \in {"ensure", "stats"}
  /\ ~q.force
  /\ q.existing # <<>>
  /\ q.existing[1].schema_version # DATASET_STATS_SCHEMA_VERSION

\* C30: a non-forced call that finds a row of another schema version goes on
\* to reload; when the file is missing or unreadable the load raises nothing,
\* and the upsert (unless the database fails) leaves the dataset with one row,
\* the null record stamped with the current version, which it returns: the
\* earlier statistics are gone. A later non-forced call finds that row
\* current and returns it without writing.
C30_LegacyRowWithoutFileBecomesNullRecord ==
  [][\A p \in Procs :
       /\ (/\ proc[p].pc = "fetch"
           /\ proc'[p] # proc[p]
           /\ ~proc'[p].db_failed
           /\ ~proc[p].force
           /\ StoredRow(p) # <<>>
           /\ StoredRow(p)[1].schema_version # DATASET_STATS_SCHEMA_VERSION)
            => (proc'[p].pc = "load" /\ proc'[p].existing = StoredRow(p))
       /\ (/\ proc[p].pc = "load"
           /\ proc'[p] # proc[p]
           /\ UnforcedOnLegacy(proc[p])
           /\ ~GetFullPathRaises(proc[p].dataset)
           /\ ReadDatasetIntoDataframe(proc[p].dataset, storage).isNone)
            => (proc'[p].pc = "upsert" /\ proc'[p].df.isNone)
       /\ (/\ EndsUpsert(p)
           /\ UnforcedOnLegacy(proc[p])
           /\ proc[p].df.isNone
           /\ ~proc'[p].db_failed)
            => /\ StoresAndReturns(p)
               /\ IsNullRecord(proc'[p].result.stats[1])
               /\ proc'[p].result.stats[1].schema_version = DATASET_STATS_SCHEMA_VERSION
               /\ Cardinality(RowsOf(statsTable', proc[p].dataset.dataset_id)) = 1
       /\ (/\ proc[p].pc = "fetch"
           /\ proc'[p] # proc[p]
           /\ ~proc'[p].db_failed
           /\ ~proc[p].force
           /\ StoredRow(p) # <<>>
           /\ StoredRow(p)[1].schema_version = DATASET_STATS_SCHEMA_VERSION
           /\ IsNullRecord(StoredRow(p)[1]))
            => /\ proc'[p].pc = "done"
               /\ proc'[p].result.kind = "returned"
               /\ proc'[p].result.stats = StoredRow(p)
               /\ ~proc'[p].upserted
               /\ statsTable' = statsTable]_vars

\* the statistics an earlier release computed for a real table were replaced
\* by the null record in a non-forced call made after the file was deleted,
\* and the next non-forced call returned that record from the cache
C30_Witness ==
  \E p, q \in Procs :
    /\ p # q
    /\ proc[p].pc = "done"
    /\ UnforcedOnLegacy(proc[p])
    /\ proc[p].existing[1].general_stats.num_samples > 0
    /\ proc[p].existing[1].feature_correlations # <<>>
    /\ proc[p].existing[1].event_time_histogram # <<>>
    /\ proc[p].dataset.file_path[1] \notin DOMAIN storage
    /\ proc[p].upserted
    /\ proc[p].result.kind = "returned"
    /\ IsNullRecord(proc[p].result.stats[1])
    /\ proc[p].result.stats[1].schema_version = DATASET_STATS_SCHEMA_VERSION
    /\ proc[q].pc = "done"
    /\ proc[q].op \in {"ensure", "stats"}
    /\ ~proc[q].force
    /\ ~proc[q].upserted
    /\ proc[q].existing = proc[p].result.stats
    /\ proc[q].result.kind = "returned"
    /\ proc[q].result.stats = proc[p].result.stats
    /\ statsTable = proc[p].result.stats

============================================================================
